---- MODULE Spec2Model ----
(***************************************************************************)
(* A model of the supply-chain inventory cleaning pipeline                 *)
(* (clean_supply_chain_data and its nested clean_cost) and of the dirty    *)
(* values that generate_data.py feeds into it.                             *)
(*                                                                         *)
(* Text is a sequence of one-character strings.  A nullable numeric cell   *)
(* is <<>> for NaN/None and <<v>> for a number; numbers are fixed point,   *)
(* counted in units of 1/Scale, so that decimal fractions and the          *)
(* midpoints that medians produce stay exact.                              *)
(***************************************************************************)
EXTENDS Integers, Sequences, FiniteSets, TLC

\* Longest raw cost text enumerated for the cost parser.
MaxLen == 3
\* Most rows of a table whose Category / Unit_Cost_Raw columns vary.
MaxRows == 4
\* Most rows of a table whose stock, demand, safety and lead columns vary.
MaxDirtyRows == 1

RECURSIVE Pow10(_)
Pow10(n) == IF n = 0 THEN 1 ELSE 10 * Pow10(n - 1)

\* Digits kept after the decimal point.  A text of at most MaxLen characters
\* spells at most MaxLen - 1 of them, which leaves two digits for midpoints.
FracDigits == MaxLen + 1
Scale == Pow10(FracDigits)

Null == <<>>
Num(v) == <<v>>
IsNa(x) == x = Null
Val(x) == x[1]

---------------------------------------------------------------------------
\* Python text primitives used by the cleaner.

DigitChars == <<"0", "1", "2", "3", "4", "5", "6", "7", "8", "9">>

\* str.isdigit on one character
IsDigit(c) == \E k \in 1..Len(DigitChars) : DigitChars[k] = c

DigitVal(c) == (CHOOSE k \in 1..Len(DigitChars) : DigitChars[k] = c) - 1

IsSpace(c) == c = " "

RECURSIVE LStrip(_)
LStrip(s) == IF s /= <<>> /\ IsSpace(Head(s)) THEN LStrip(Tail(s)) ELSE s

RECURSIVE RStrip(_)
RStrip(s) ==
    IF s /= <<>> /\ IsSpace(s[Len(s)]) THEN RStrip(SubSeq(s, 1, Len(s) - 1)) ELSE s

\* str.strip()
Strip(s) == RStrip(LStrip(s))

CasePairs == { <<"h", "H">>, <<"o", "O">>, <<"m", "M">>, <<"e", "E">>,
               <<"f", "F">>, <<"d", "D">>, <<"t", "T">>, <<"y", "Y">> }

Upper(c) == IF \E p \in CasePairs : p[1] = c
            THEN (CHOOSE p \in CasePairs : p[1] = c)[2] ELSE c

Lower(c) == IF \E p \in CasePairs : p[2] = c
            THEN (CHOOSE p \in CasePairs : p[2] = c)[1] ELSE c

\* str.capitalize(): first character upper-cased, every other one lower-cased
Capitalize(s) == [i \in 1..Len(s) |-> IF i = 1 THEN Upper(s[i]) ELSE Lower(s[i])]

\* re.sub(r'[^\d.]', '', s): only digits and decimal points survive
KeepNumeric(c) == IsDigit(c) \/ c = "."
ReSubNonNumeric(s) == SelectSeq(s, KeepNumeric)

RECURSIVE DigitsValue(_)
\* value of a run of decimal digits, most significant first
DigitsValue(s) ==
    IF s = <<>> THEN 0
    ELSE 10 * DigitsValue(SubSeq(s, 1, Len(s) - 1)) + DigitVal(s[Len(s)])

DotCount(s) == Cardinality({i \in 1..Len(s) : s[i] = "."})
DigitCount(s) == Cardinality({i \in 1..Len(s) : IsDigit(s[i])})

\* float(s) for a text of digits and points: ok = FALSE stands for ValueError.
\* Python accepts "12", "1.5", ".5" and "5."; it rejects "", "." and any text
\* with two points.
PyFloat(s) ==
    IF DotCount(s) > 1 \/ DigitCount(s) = 0 \/ DigitCount(s) + DotCount(s) /= Len(s)
    THEN [ok |-> FALSE, v |-> 0]
    ELSE LET dot == IF DotCount(s) = 0 THEN Len(s) + 1
                    ELSE CHOOSE i \in 1..Len(s) : s[i] = "."
             ip == SubSeq(s, 1, dot - 1)
             fp == SubSeq(s, dot + 1, Len(s))
         IN [ok |-> TRUE,
             v  |-> DigitsValue(ip) * Scale
                    + DigitsValue(fp) * Pow10(FracDigits - Len(fp))]

\* clean_cost without its try/except: a malformed remainder escapes as ValueError
clean_cost_unguarded(value) ==
    IF IsNa(value) THEN [raised |-> FALSE, ret |-> Null]
    ELSE LET value_str == Strip(value) IN
         IF ~ \E i \in 1..Len(value_str) : IsDigit(value_str[i])
         THEN [raised |-> FALSE, ret |-> Null]
         ELSE LET cleaned == ReSubNonNumeric(value_str)
                  f == PyFloat(cleaned)
              IN IF f.ok THEN [raised |-> FALSE, ret |-> Num(f.v)]
                 ELSE [raised |-> TRUE, ret |-> Null]

\* clean_cost(value): raised tells whether an exception leaves the function,
\* ret is the returned cell.
clean_cost(value) ==
    IF IsNa(value) THEN [raised |-> FALSE, ret |-> Null]
    ELSE LET value_str == Strip(value) IN
         IF ~ \E i \in 1..Len(value_str) : IsDigit(value_str[i])
         THEN [raised |-> FALSE, ret |-> Null]
         ELSE LET cleaned == ReSubNonNumeric(value_str)
                  f == PyFloat(cleaned)
              IN IF f.ok THEN [raised |-> FALSE, ret |-> Num(f.v)]
                 ELSE [raised |-> FALSE, ret |-> Null]

\* pd.to_numeric(value, errors='coerce') on one cell of an object column: the
\* whole text, apart from surrounding blanks and a sign, must be a number;
\* anything else is coerced to NaN.
to_numeric(value) ==
    IF IsNa(value) THEN Null
    ELSE LET s == Strip(value)
             neg == s /= <<>> /\ Head(s) = "-"
             body == IF s /= <<>> /\ Head(s) \in {"-", "+"} THEN Tail(s) ELSE s
             f == PyFloat(body)
         IN IF f.ok THEN Num(IF neg THEN 0 - f.v ELSE f.v) ELSE Null

---------------------------------------------------------------------------
\* pandas column primitives.

RECURSIVE Insert(_, _)
Insert(x, sorted) ==
    IF sorted = <<>> THEN <<x>>
    ELSE IF x <= Head(sorted) THEN <<x>> \o sorted
    ELSE <<Head(sorted)>> \o Insert(x, Tail(sorted))

RECURSIVE Sort(_)
Sort(s) == IF s = <<>> THEN <<>> ELSE Insert(Head(s), Sort(Tail(s)))

\* the numbers held by the non-null cells of a column, in row order
NonNull(col) ==
    LET kept == SelectSeq(col, LAMBDA x : ~IsNa(x))
    IN [i \in 1..Len(kept) |-> Val(kept[i])]

\* the upper middle value alone: what a median that forgets to average the
\* two middle values of an even-sized group would return
SeriesMedianUpper(col) ==
    LET xs == Sort(NonNull(col))
        n == Len(xs)
    IN IF n = 0 THEN Null ELSE Num(xs[(n \div 2) + 1])

\* Series.median(): NaN cells are skipped; NaN when nothing is left; the mean
\* of the two middle values when the count is even
SeriesMedian(col) ==
    LET xs == Sort(NonNull(col))
        n == Len(xs)
    IN IF n = 0 THEN Null
       ELSE IF n % 2 = 1 THEN Num(xs[(n + 1) \div 2])
       ELSE Num((xs[n \div 2] + xs[(n \div 2) + 1]) \div 2)

\* Series.fillna(v) on one cell; filling with NaN changes nothing
FillNa(x, v) == IF IsNa(x) THEN v ELSE x

\* a clip that also replaces NaN by the bound
ClipLowerFillsNaN(x, lo) ==
    IF IsNa(x) THEN Num(lo) ELSE IF Val(x) < lo THEN Num(lo) ELSE x

\* Series.clip(lower=lo) on one cell; NaN stays NaN
ClipLower(x, lo) == IF IsNa(x) THEN x ELSE IF Val(x) < lo THEN Num(lo) ELSE x

\* float product and sum with NaN propagation
Mul(a, b) ==
    IF IsNa(a) \/ IsNa(b) THEN Null
    ELSE Num((Val(a) \div Scale) * Val(b) + ((Val(a) % Scale) * Val(b)) \div Scale)

Add(a, b) == IF IsNa(a) \/ IsNa(b) THEN Null ELSE Num(Val(a) + Val(b))

\* a == 0 and a < b on floats: any comparison with NaN is False
EqZero(a) == ~IsNa(a) /\ Val(a) = 0
Less(a, b) == ~IsNa(a) /\ ~IsNa(b) /\ Val(a) < Val(b)

\* the status rule with its first two tests swapped
StockStatusLowFirst(stock, reorder) ==
    IF Less(stock, reorder) THEN "Low Stock"
    ELSE IF EqZero(stock) THEN "Out of Stock"
    ELSE "Normal Stock"

\* the lambda applied to every row for Stock_Status
StockStatus(stock, reorder) ==
    IF EqZero(stock) THEN "Out of Stock"
    ELSE IF Less(stock, reorder) THEN "Low Stock"
    ELSE "Normal Stock"

---------------------------------------------------------------------------
\* The run: the input file, the frame in memory, the output location.

VARIABLES
    pc,         \* the section of clean_supply_chain_data about to run
    input,      \* the input file: readable or not, its columns, its rows
    df,         \* the DataFrame being cleaned
    df_clean,   \* the projected frame handed to to_csv
    error,      \* the exception that ended the run, "" while there is none
    out_state,  \* output location: "absent", "open" (being written), "closed"
    out_rows    \* the rows the output location holds

vars == <<pc, input, df, df_clean, error, out_state, out_rows>>

RequiredColumns ==
    {"Product_ID", "Category", "Unit_Cost_Raw", "Current_Stock_Raw",
     "Daily_Demand_Est", "Safety_Stock_Target", "Vendor_Name", "Lead_Time_Days"}

output_columns ==
    <<"Product_ID", "Category", "Unit_Cost", "Current_Stock",
      "Daily_Demand_Est", "Safety_Stock_Target", "Vendor_Name",
      "Lead_Time_Days", "Reorder_Point", "Stock_Status", "Inventory_Value">>

\* One raw row as make_dirty_cost, make_dirty_stock and the row dictionary
\* produce it.  The columns the cleaner adds later are carried from the start
\* and hold NaN / "" until the section that assigns them has run.
RawRow(pid, cat, cost, stock, demand, safety, vendor, lead) ==
    [Product_ID |-> pid, Category |-> cat, Unit_Cost_Raw |-> cost,
     Current_Stock_Raw |-> stock, Daily_Demand_Est |-> demand,
     Safety_Stock_Target |-> safety, Vendor_Name |-> vendor,
     Lead_Time_Days |-> lead,
     Unit_Cost |-> Null, Current_Stock |-> Null, Reorder_Point |-> Null,
     Stock_Status |-> "", Inventory_Value |-> Null]

\* Raw cell values.
PaddedSku == <<" ", "A", " ">>
PaddedVendor == <<"V", " ">>
UpperHome == <<"H", "O", "M", "E">>
PaddedLowerHome == <<"h", "o", "m", "e", " ">>
Food == <<"F", "o", "o", "d">>
LowerToy == <<"t", "o", "y">>
DollarFour == <<"$", "4">>
Sixteen == <<"1", "6">>
MinusThree == <<"-", "3">>
Zero == <<"0">>
One == <<"1">>
TwoPcs == <<"2", " ", "p", "c", "s">>

\* The characters raw cost texts are built from: digits, the decimal point,
\* the currency sign, the thousands separator, blank, minus, a letter.
CostAlphabet == {"1", "2", ".", "$", ",", " ", "-", "Q"}

CostTexts == UNION {[1..n -> CostAlphabet] : n \in 1..MaxLen}

\* One-row tables over every raw cost text (and the missing cost).
CostRows ==
    {RawRow(PaddedSku, Food, c, One, Num(Scale), Num(Scale), PaddedVendor,
            Num(2 * Scale)) : c \in CostTexts \cup {Null}}

\* Rows whose category and cost vary.  A Home row is spelled in upper case
\* when its cost parses and in padded lower case when its cost is missing, so
\* filling a Home cost always crosses two raw spellings; Toy only ever carries
\* a missing cost.
CategoryRows ==
    {RawRow(PaddedSku, cat, c, One, Num(Scale), Num(Scale), PaddedVendor,
            Num(2 * Scale)) :
        cat \in {UpperHome, Food}, c \in {DollarFour, Sixteen}}
    \cup
    {RawRow(PaddedSku, cat, Null, One, Num(Scale), Num(Scale), PaddedVendor,
            Num(2 * Scale)) : cat \in {PaddedLowerHome, Food, LowerToy}}

\* Rows whose stock, demand, safety stock and lead time vary: negative,
\* missing, zero, plain and unit-suffixed stock; missing, negative and
\* positive demand; negative safety stock; lead time below one day.
DirtyRows ==
    {RawRow(PaddedSku, UpperHome, DollarFour, s, d, ss, PaddedVendor, lt) :
        s \in {Null, MinusThree, Zero, One, TwoPcs},
        d \in {Null, Num(0 - Scale), Num(Scale)},
        ss \in {Num(0 - Scale), Num(Scale)},
        lt \in {Num(0), Num(2 * Scale)}}

Tables ==
    {<<r>> : r \in CostRows}
    \cup UNION {[1..n -> CategoryRows] : n \in 1..MaxRows}
    \cup UNION {[1..n -> DirtyRows] : n \in 1..MaxDirtyRows}

SampleTable ==
    <<RawRow(PaddedSku, UpperHome, DollarFour, One, Num(Scale), Num(Scale),
             PaddedVendor, Num(2 * Scale))>>

Inputs ==
    {[readable |-> TRUE, columns |-> RequiredColumns, rows |-> t] : t \in Tables}
    \cup {[readable |-> TRUE, columns |-> RequiredColumns \ {c}, rows |-> SampleTable] :
            c \in RequiredColumns}
    \cup {[readable |-> FALSE, columns |-> RequiredColumns, rows |-> SampleTable]}

Init ==
    /\ input \in Inputs
    /\ pc = "extract"
    /\ df = <<>>
    /\ df_clean = <<>>
    /\ error = ""
    /\ out_state = "absent"
    /\ out_rows = <<>>

\* The input columns each section reads (df['X'] raises KeyError when X is absent).
SectionColumns(section) ==
    CASE section = "product_id" -> {"Product_ID"}
      [] section = "category" -> {"Category"}
      [] section = "unit_cost" -> {"Unit_Cost_Raw"}
      [] section = "current_stock" -> {"Current_Stock_Raw"}
      [] section = "impute" -> {}
      [] section = "vendor_name" -> {"Vendor_Name"}
      [] section = "validate" ->
            {"Daily_Demand_Est", "Safety_Stock_Target", "Lead_Time_Days"}
      [] OTHER -> {}

Runs(section) == pc = section /\ SectionColumns(section) \subseteq input.columns

Fail(exc) ==
    /\ pc' = "failed"
    /\ error' = exc

\* pd.read_csv(input_file)
Extract ==
    /\ pc = "extract"
    /\ input.readable
    /\ df' = input.rows
    /\ pc' = "product_id"
    /\ UNCHANGED <<input, df_clean, error, out_state, out_rows>>

ExtractFails ==
    /\ pc = "extract"
    /\ ~input.readable
    /\ Fail("FileNotFoundError")
    /\ UNCHANGED <<input, df, df_clean, out_state, out_rows>>

\* a section indexes a column the input does not have
RaiseKeyError ==
    /\ ~(SectionColumns(pc) \subseteq input.columns)
    /\ Fail("KeyError")
    /\ UNCHANGED <<input, df, df_clean, out_state, out_rows>>

\* 2.1
CleanProductID ==
    /\ Runs("product_id")
    /\ df' = [i \in 1..Len(df) |-> [df[i] EXCEPT !.Product_ID = Strip(@)]]
    /\ pc' = "category"
    /\ UNCHANGED <<input, df_clean, error, out_state, out_rows>>

\* 2.2
CleanCategory ==
    /\ Runs("category")
    /\ df' = [i \in 1..Len(df) |-> [df[i] EXCEPT !.Category = Capitalize(Strip(@))]]
    /\ pc' = "unit_cost"
    /\ UNCHANGED <<input, df_clean, error, out_state, out_rows>>

\* 2.3: an exception leaving clean_cost would end the run
CleanUnitCost ==
    /\ Runs("unit_cost")
    /\ IF \E i \in 1..Len(df) : clean_cost(df[i].Unit_Cost_Raw).raised
       THEN Fail("ValueError") /\ UNCHANGED df
       ELSE /\ df' = [i \in 1..Len(df) |->
                        [df[i] EXCEPT !.Unit_Cost = clean_cost(df[i].Unit_Cost_Raw).ret]]
            /\ pc' = "current_stock"
            /\ UNCHANGED error
    /\ UNCHANGED <<input, df_clean, out_state, out_rows>>

\* 2.4: coercion, then negative stock set to 0
CleanCurrentStock ==
    /\ Runs("current_stock")
    /\ df' = [i \in 1..Len(df) |->
                LET x == to_numeric(df[i].Current_Stock_Raw)
                IN [df[i] EXCEPT !.Current_Stock =
                                    IF Less(x, Num(0)) THEN Num(0) ELSE x]]
    /\ pc' = "impute"
    /\ UNCHANGED <<input, df_clean, error, out_state, out_rows>>

Column(d, name) == [i \in 1..Len(d) |-> d[i][name]]

\* df.groupby('Category')['Unit_Cost'].transform(lambda x: x.fillna(x.median()))
GroupFill(d) ==
    [i \in 1..Len(d) |->
        LET x == SelectSeq(d, LAMBDA r : r.Category = d[i].Category)
        IN FillNa(d[i].Unit_Cost, SeriesMedian(Column(x, "Unit_Cost")))]

\* imputation whose fallback median is taken over the parsed costs only
ImputeUnitCostParsedOnly(d) ==
    LET by_category == GroupFill(d)
        fallback == SeriesMedian(Column(d, "Unit_Cost"))
    IN [i \in 1..Len(d) |-> FillNa(by_category[i], fallback)]

\* the two fillna passes over Unit_Cost: per category, then over what the
\* column holds after that
ImputeUnitCost(d) ==
    LET by_category == GroupFill(d)
        fallback == SeriesMedian(by_category)
    IN [i \in 1..Len(d) |-> FillNa(by_category[i], fallback)]

\* 2.5
ImputeNulls ==
    /\ Runs("impute")
    /\ df' = [i \in 1..Len(df) |->
                [df[i] EXCEPT !.Current_Stock = FillNa(@, Num(0)),
                              !.Unit_Cost = ImputeUnitCost(df)[i]]]
    /\ pc' = "vendor_name"
    /\ UNCHANGED <<input, df_clean, error, out_state, out_rows>>

\* 2.6
CleanVendorName ==
    /\ Runs("vendor_name")
    /\ df' = [i \in 1..Len(df) |-> [df[i] EXCEPT !.Vendor_Name = Strip(@)]]
    /\ pc' = "validate"
    /\ UNCHANGED <<input, df_clean, error, out_state, out_rows>>

\* 2.7
Validate ==
    /\ Runs("validate")
    /\ df' = [i \in 1..Len(df) |->
                [df[i] EXCEPT !.Daily_Demand_Est = ClipLower(@, 0),
                              !.Safety_Stock_Target = ClipLower(@, 0),
                              !.Lead_Time_Days = ClipLower(@, Scale)]]
    /\ pc' = "derive"
    /\ UNCHANGED <<input, df_clean, error, out_state, out_rows>>

\* 2.8
AddDerived ==
    /\ pc = "derive"
    /\ df' = [i \in 1..Len(df) |->
                LET rp == Add(Mul(df[i].Daily_Demand_Est, df[i].Lead_Time_Days),
                              df[i].Safety_Stock_Target)
                IN [df[i] EXCEPT
                        !.Reorder_Point = rp,
                        !.Stock_Status = StockStatus(df[i].Current_Stock, rp),
                        !.Inventory_Value = Mul(df[i].Current_Stock, df[i].Unit_Cost)]]
    /\ pc' = "project"
    /\ UNCHANGED <<input, df_clean, error, out_state, out_rows>>

OutputSet == {output_columns[k] : k \in 1..Len(output_columns)}

\* a projection that also drops repeated rows
ProjectDistinct(d) ==
    LET keep == {i \in 1..Len(d) : \A j \in 1..(i - 1) : d[j] /= d[i]}
        kept == SelectSeq([i \in 1..Len(d) |-> <<i, d[i]>>], LAMBDA p : p[1] \in keep)
    IN [i \in 1..Len(kept) |-> [c \in OutputSet |-> kept[i][2][c]]]

\* df[output_columns]
Project(d) == [i \in 1..Len(d) |-> [c \in OutputSet |-> d[i][c]]]

\* 3: the projection
SelectOutput ==
    /\ pc = "project"
    /\ df_clean' = Project(df)
    /\ pc' = "open"
    /\ UNCHANGED <<input, df, error, out_state, out_rows>>

\* to_csv opens output_file for writing, which empties it
OpenOutput ==
    /\ pc = "open"
    /\ out_state' = "open"
    /\ out_rows' = <<>>
    /\ pc' = "write"
    /\ UNCHANGED <<input, df, df_clean, error>>

\* the output location cannot be opened for writing
OpenOutputFails ==
    /\ pc = "open"
    /\ Fail("PermissionError")
    /\ UNCHANGED <<input, df, df_clean, out_state, out_rows>>

\* to_csv writes the next row
WriteRow ==
    /\ pc = "write"
    /\ Len(out_rows) < Len(df_clean)
    /\ out_rows' = Append(out_rows, df_clean[Len(out_rows) + 1])
    /\ UNCHANGED <<pc, input, df, df_clean, error, out_state>>

\* a write fails (the device fills up, the connection drops)
WriteRowFails ==
    /\ pc = "write"
    /\ Len(out_rows) < Len(df_clean)
    /\ Fail("OSError")
    /\ UNCHANGED <<input, df, df_clean, out_state, out_rows>>

\* to_csv closes the file and the function returns df_clean
CloseOutput ==
    /\ pc = "write"
    /\ Len(out_rows) = Len(df_clean)
    /\ out_state' = "closed"
    /\ pc' = "done"
    /\ UNCHANGED <<input, df, df_clean, error, out_rows>>

Next ==
    \/ Extract
    \/ ExtractFails
    \/ RaiseKeyError
    \/ CleanProductID
    \/ CleanCategory
    \/ CleanUnitCost
    \/ CleanCurrentStock
    \/ ImputeNulls
    \/ CleanVendorName
    \/ Validate
    \/ AddDerived
    \/ SelectOutput
    \/ OpenOutput
    \/ OpenOutputFails
    \/ WriteRow
    \/ WriteRowFails
    \/ CloseOutput

Spec == Init /\ [][Next]_vars

---------------------------------------------------------------------------
\* Vocabulary of the properties.

Done == pc = "done"
Rows == 1..Len(input.rows)
NumericOutputs ==
    {"Unit_Cost", "Current_Stock", "Daily_Demand_Est", "Safety_Stock_Target",
     "Lead_Time_Days", "Reorder_Point", "Inventory_Value"}
Statuses == {"Out of Stock", "Low Stock", "Normal Stock"}

\* the cost cell clean_cost leaves for raw row i, and the normalized category
Parsed(i) == clean_cost(input.rows[i].Unit_Cost_Raw).ret
Normalized(i) == Capitalize(Strip(input.rows[i].Category))

\* the k-th smallest member of a non-empty sequence of numbers, by rank
Kth(xs, k) ==
    CHOOSE v \in {xs[i] : i \in 1..Len(xs)} :
        /\ Cardinality({i \in 1..Len(xs) : xs[i] < v}) < k
        /\ Cardinality({i \in 1..Len(xs) : xs[i] <= v}) >= k

\* m is the median of xs: the middle value, or the midpoint of the two middle ones
IsMedian(m, xs) ==
    /\ xs /= <<>>
    /\ ~IsNa(m)
    /\ 2 * Val(m) = Kth(xs, (Len(xs) + 1) \div 2) + Kth(xs, (Len(xs) + 2) \div 2)

\* the parsed costs of the rows in the same normalized category as row i
PeerCosts(i) ==
    LET idx == SelectSeq([j \in Rows |-> j],
                         LAMBDA j : Normalized(j) = Normalized(i) /\ ~IsNa(Parsed(j)))
    IN [k \in 1..Len(idx) |-> Val(Parsed(idx[k]))]

\* every parsed cost of the table
AllParsedCosts ==
    LET idx == SelectSeq([j \in Rows |-> j], LAMBDA j : ~IsNa(Parsed(j)))
    IN [k \in 1..Len(idx) |-> Val(Parsed(idx[k]))]

\* the text left of a raw cost once every character but digits and '.' is deleted
Remainder(raw) ==
    LET keep == {i \in 1..Len(raw) : IsDigit(raw[i]) \/ raw[i] = "."}
        idx == SelectSeq([i \in 1..Len(raw) |-> i], LAMBDA i : i \in keep)
    IN [k \in 1..Len(idx) |-> raw[idx[k]]]

\* t spells a number: digits around at most one point, at least one digit
SpellsNumber(t) ==
    /\ \E i \in 1..Len(t) : IsDigit(t[i])
    /\ \A i, j \in 1..Len(t) : (t[i] = "." /\ t[j] = ".") => i = j

RECURSIVE PlaceSum(_, _, _)
\* the sum of each digit of t times the power of ten of its place, in 1/Scale
PlaceSum(t, point, i) ==
    IF i > Len(t) THEN 0
    ELSE (IF i < point THEN DigitVal(t[i]) * Pow10(FracDigits + point - i - 1)
          ELSE IF i > point THEN DigitVal(t[i]) * Pow10(FracDigits + point - i)
          ELSE 0)
         + PlaceSum(t, point, i + 1)

SpelledValue(t) ==
    LET point == IF \E i \in 1..Len(t) : t[i] = "."
                 THEN CHOOSE i \in 1..Len(t) : t[i] = "." ELSE Len(t) + 1
    IN PlaceSum(t, point, 1)

\* a raw stock text made of a number followed by a blank and a unit
UnitSuffixed(raw) ==
    /\ ~IsNa(raw)
    /\ \E k \in 1..(Len(raw) - 2) :
        /\ \A i \in 1..k : IsDigit(raw[i])
        /\ IsSpace(raw[k + 1])
        /\ \A i \in (k + 2)..Len(raw) : ~IsDigit(raw[i]) /\ ~IsSpace(raw[i])

LeadingNumber(raw) ==
    LET k == CHOOSE k \in 1..(Len(raw) - 1) :
                (\A i \in 1..k : IsDigit(raw[i])) /\ IsSpace(raw[k + 1])
    IN DigitsValue(SubSeq(raw, 1, k)) * Scale

---------------------------------------------------------------------------
\* Properties.

\* C1: once the run has completed, no cell of any of the 11 output columns is
\* null, rows whose raw Daily_Demand_Est was missing included.
C1_NoNullInOutput ==
    Done => \A i \in 1..Len(out_rows) :
                /\ \A c \in NumericOutputs : ~IsNa(out_rows[i][c])
                /\ out_rows[i].Stock_Status \in Statuses
                /\ out_rows[i].Product_ID /= <<>>
                /\ out_rows[i].Category /= <<>>
                /\ out_rows[i].Vendor_Name /= <<>>

\* C2: in every output row Current_Stock >= 0, Lead_Time_Days >= 1,
\* Safety_Stock_Target >= 0 and Unit_Cost is non-null and non-negative,
\* whatever the raw values were (no parseable cost in the table included).
C2_RangesHold ==
    Done => \A i \in 1..Len(out_rows) :
                /\ ~IsNa(out_rows[i].Current_Stock) /\ Val(out_rows[i].Current_Stock) >= 0
                /\ ~IsNa(out_rows[i].Lead_Time_Days)
                /\ Val(out_rows[i].Lead_Time_Days) >= Scale
                /\ ~IsNa(out_rows[i].Safety_Stock_Target)
                /\ Val(out_rows[i].Safety_Stock_Target) >= 0
                /\ ~IsNa(out_rows[i].Unit_Cost) /\ Val(out_rows[i].Unit_Cost) >= 0

\* C3: a raw stock text made of a number and a trailing unit suffix ("2 pcs")
\* ends up as that number in Current_Stock.
C3_SuffixedStockParsed ==
    Done => \A i \in Rows :
                UnitSuffixed(input.rows[i].Current_Stock_Raw)
                    => out_rows[i].Current_Stock
                         = Num(LeadingNumber(input.rows[i].Current_Stock_Raw))

C5_GlobalMedianOfParsed ==
    Done => \A i \in Rows :
                PeerCosts(i) = <<>>
                    => IF AllParsedCosts = <<>> THEN IsNa(out_rows[i].Unit_Cost)
                       ELSE IsMedian(out_rows[i].Unit_Cost, AllParsedCosts)

\* the Unit_Cost column as the per-category pass leaves it: parsed costs,
\* category medians where a category has some, null elsewhere
AfterCategoryFill ==
    LET idx == SelectSeq([j \in Rows |-> j], LAMBDA j : PeerCosts(j) /= <<>>)
    IN [k \in 1..Len(idx) |->
            IF ~IsNa(Parsed(idx[k])) THEN Val(Parsed(idx[k]))
            ELSE (Kth(PeerCosts(idx[k]), (Len(PeerCosts(idx[k])) + 1) \div 2)
                  + Kth(PeerCosts(idx[k]), (Len(PeerCosts(idx[k])) + 2) \div 2)) \div 2]

\* C5 amended: a row whose normalized category has no parsed cost gets the
\* median of the Unit_Cost column as it stands after per-category imputation
\* (parsed and category-imputed values alike), and stays null when no cost of
\* the table parsed.
C5_GlobalMedianAfterCategoryFill ==
    Done => LET filled == AfterCategoryFill IN
            \A i \in Rows :
                PeerCosts(i) = <<>>
                    => IF filled = <<>> THEN IsNa(out_rows[i].Unit_Cost)
                       ELSE IsMedian(out_rows[i].Unit_Cost, filled)

\* C5 witness: the fallback is used and differs from the median of the parsed
\* costs alone.
C5_Witness ==
    /\ Done
    /\ \E i \in Rows :
        /\ PeerCosts(i) = <<>>
        /\ AllParsedCosts /= <<>>
        /\ IsMedian(out_rows[i].Unit_Cost, AfterCategoryFill)
        /\ ~IsMedian(out_rows[i].Unit_Cost, AllParsedCosts)

\* C6: with a non-null Reorder_Point, Stock_Status is 'Out of Stock' when
\* Current_Stock is 0, else 'Low Stock' when Current_Stock < Reorder_Point,
\* else 'Normal Stock'; it is always one of the three.
C6_StatusPriority ==
    Done => \A i \in 1..Len(out_rows) :
                LET r == out_rows[i] IN
                /\ r.Stock_Status \in Statuses
                /\ ~IsNa(r.Reorder_Point) =>
                    /\ Val(r.Current_Stock) = 0 => r.Stock_Status = "Out of Stock"
                    /\ (Val(r.Current_Stock) /= 0
                            /\ Val(r.Current_Stock) < Val(r.Reorder_Point))
                        => r.Stock_Status = "Low Stock"
                    /\ (Val(r.Current_Stock) /= 0
                            /\ Val(r.Current_Stock) >= Val(r.Reorder_Point))
                        => r.Stock_Status = "Normal Stock"

\* C6 witness: zero stock below a positive reorder point is 'Out of Stock'.
C6_Witness ==
    /\ Done
    /\ \E i \in 1..Len(out_rows) :
        /\ ~IsNa(out_rows[i].Reorder_Point)
        /\ Val(out_rows[i].Current_Stock) = 0
        /\ Val(out_rows[i].Reorder_Point) > 0
        /\ out_rows[i].Stock_Status = "Out of Stock"

\* C7: clean_cost never raises; it yields null for a null, for a text without
\* a digit and for a text whose remainder of digits and points spells no
\* number, and otherwise the non-negative number the remainder spells.
C7_CleanCostTotal ==
    /\ error /= "ValueError"
    /\ pc = "current_stock" =>
        \A i \in Rows :
            LET raw == input.rows[i].Unit_Cost_Raw
                got == df[i].Unit_Cost
            IN IF IsNa(raw) THEN IsNa(got)
               ELSE IF ~ \E k \in 1..Len(raw) : IsDigit(raw[k]) THEN IsNa(got)
               ELSE IF ~SpellsNumber(Remainder(raw)) THEN IsNa(got)
               ELSE got = Num(SpelledValue(Remainder(raw))) /\ Val(got) >= 0

\* C7 witness: the parser has run on a text with a digit and two points.
C7_Witness ==
    /\ pc = "current_stock"
    /\ \E i \in Rows :
        LET raw == input.rows[i].Unit_Cost_Raw IN
        /\ ~IsNa(raw)
        /\ \E k \in 1..Len(raw) : IsDigit(raw[k])
        /\ ~SpellsNumber(Remainder(raw))
        /\ IsNa(df[i].Unit_Cost)

\* C8: a failed run either never began writing the output location or leaves
\* the complete cleaned table there.
C8_NoPartialOutput ==
    pc = "failed" => out_state = "absent" \/ out_rows = df_clean

\* C9: no section adds, drops or reorders rows: the frame, the projection and
\* the written file have one row per input row, the i-th from the i-th.
C9_RowsPreserved ==
    /\ pc \notin {"extract", "failed"} =>
        /\ Len(df) = Len(input.rows)
        /\ \A i \in Rows :
            /\ df[i].Unit_Cost_Raw = input.rows[i].Unit_Cost_Raw
            /\ df[i].Current_Stock_Raw = input.rows[i].Current_Stock_Raw
    /\ pc \in {"open", "write", "done"} =>
        /\ Len(df_clean) = Len(input.rows)
        /\ \A i \in Rows :
            /\ df_clean[i].Product_ID = Strip(input.rows[i].Product_ID)
            /\ df_clean[i].Category = Normalized(i)
            /\ df_clean[i].Vendor_Name = Strip(input.rows[i].Vendor_Name)
            /\ ~IsNa(Parsed(i)) => df_clean[i].Unit_Cost = Parsed(i)
    /\ Done => out_rows = df_clean

\* C9 witness: a table with a repeated row and a different one has been
\* written in full.
C9_Witness ==
    /\ Done
    /\ Len(out_rows) = Len(input.rows)
    /\ \E i, j, k \in Rows :
        /\ i < j /\ j < k
        /\ input.rows[i] = input.rows[k]
        /\ input.rows[i] /= input.rows[j]
        /\ out_rows[i] = out_rows[k]
        /\ out_rows[i] /= out_rows[j]

====
